---- MODULE Spec2Model ----
(***************************************************************************)
(* A model of the voice teleoperation bridge (GeminiLiveService): the      *)
(* moveRobot tool dispatcher, the inbound message handler, the playback    *)
(* scheduler, the capture pipeline and the teardown paths; of the PCM      *)
(* codec and analyzeScene; of the servo toggles and the sticks of          *)
(* MobileControls and the keys of Controls; of the robot WebSocket and     *)
(* sendCommand of App; and of the retry logic of VideoFeed.                *)
(***************************************************************************)
EXTENDS Integers, Sequences, FiniteSets, TLC

\* ------------------------------------------------------------------------
\* Bounds of the model
\* ------------------------------------------------------------------------
\* speed arguments of a moveRobot call range over -MaxSpeedArg..MaxSpeedArg
MaxSpeedArg == 300
\* inbound events received by one session
MaxMsgs == 2
\* function calls the remote side issues in all its events together
MaxCalls == 3
\* connect() calls on one service instance
MaxConnects == 2
\* audio chunks of a playback run, the longest chunk, and the last clock tick
MaxChunks == 3
MaxDur == 2
MaxTime == 4
\* audio frames captured, and disconnect() calls
MaxFrames == 3
MaxDisconnects == 2
\* input samples of the codec are the rationals n / GridDen
GridDen == 1000
\* servo commands emitted by the toggles
MaxToggles == 4
\* WebSockets created by connectRobot, and sendCommand calls
MaxSockets == 2
MaxSends == 4
\* fingers on the screen, the farthest a finger moves from where it came
\* down (pixels), and the milliseconds of one step of the clock
MaxTouches == 2
MaxDelta == 130
TickMs == 6
\* load errors of the camera image, and changes of the camera configuration
MaxErrors == 4
MaxConfigEdits == 2

\* ------------------------------------------------------------------------
\* Values
\* ------------------------------------------------------------------------
\* an optional value is a sequence of length 0 (null / undefined) or 1
NULL == <<>>
Some(x) == <<x>>
\* a speed argument the remote model left out (undefined)
ABSENT == <<>>
\* the directions the tool schema declares (moveRobotTool, enum)
Directions == {"forward", "backward", "left", "right", "stop"}
\* a direction outside the declared enum
UnknownDirection == "spin"
\* the PWM range documented for MotorCommand.throttle / steer
PwmMax == 255
\* the speed used when the argument is absent or falsy
DefaultSpeed == 200
\* the encoder's scales (s * 0x8000 below zero, s * 0x7FFF otherwise) and
\* the decoder's divisor (dataInt16[i] / 32768.0)
NegScale == 32768
PosScale == 32767
DecodeScale == 32768
\* Controls: useState(200), the speed before the slider is moved
InitialSpeed == 200
\* MobileControls: the pixel ranges of the sticks (maxDist), the deadzone
\* and the rate limit of sendCombinedCommand in milliseconds
LeftRange == 120
RightRange == 100
Deadzone == 20
RateLimitMs == 16

VARIABLES
    \* --- tool dispatcher, one call at a time (SpecMap) ---
    fcArgs,      \* the arguments of the function call being dispatched
    sinkCmd      \* the MotorCommand handed to config.onToolCall, or NULL

VARIABLES
    \* --- the service's fields (GeminiLiveService) ---
    sessionPromise,  \* this.sessionPromise: 0 (null) or the connect() call that set it
    audioContext,    \* this.audioContext: 0 (null) or the connect() call that created it
    source,          \* this.source: 0 (null) or the capture node pair it belongs to
    inputProcessor,  \* this.inputProcessor: 0 (null) or a capture node pair
    nextStartTime,   \* this.nextStartTime, the playback cursor
    \* --- the environment of the service ---
    nconn,           \* connect() calls made so far
    conn,            \* per connect() call: microphone request, transport, promise
    ctxState,        \* per connect() call: the state of the AudioContext it created
    procs,           \* capture node pairs created by onopen, in creation order
    thenQ,           \* per session promise: the then-callbacks waiting for it
    captured,        \* audio frames captured so far (onaudioprocess events)
    callbacks,       \* how often config.onClose and config.onError were invoked
    disc,            \* disconnect(): calls made, calls awaiting close(), calls
                     \* that rejected, and the connect() calls that were in
                     \* progress when a disconnect() was called
    released,        \* how often a microphone stream was stopped (track.stop())
                     \* and the output context closed (outputContext.close())
    tx,              \* what was transmitted on the sessions, in order
    now,             \* outputContext.currentTime
    \* --- inbound message handlers ---
    handlers,        \* one record per inbound event, in arrival order
    nextId,          \* the id the remote side gives its next function call
    sinkLog,         \* the invocations of config.onToolCall, in order
    settled,         \* the sink invocations that have settled, with their outcome
    schedule,        \* source.start(startTime) calls, in order
    transcripts      \* config.onTranscript calls, in order

VARIABLES
    \* --- the PCM codec (createPcmBlob, decodeAudioData), one sample ---
    sample,      \* the numerator of the input sample sample / GridDen
    pcmBytes,    \* the two bytes createPcmBlob produced for it, or NULL
    decoded,     \* the 16-bit value decodeAudioData read back, or NULL
    \* --- analyzeScene, one call ---
    sceneCall,   \* the image argument and what the model call does
    sceneResult, \* how the call settled, or NULL while it has not
    \* --- MobileControls: the servo toggles ---
    toggles,     \* the toggles state (head, top, skirt), TRUE = open
    disabled,    \* the disabled prop
    servoLog,    \* the servo commands handed to onCommand, in order
    toggleReq    \* the last handleToggle call and how it ended, or NULL

VARIABLES
    \* --- App: the robot WebSocket ---
    sockets,         \* the readyState of every WebSocket connectRobot created
    wsRef,           \* wsRef.current: 0 (null) or the socket it refers to
    connectionState, \* the connectionState state of App
    lastCmdRef,      \* lastCmdRef.current: the JSON text remembered by sendCommand
    cmdLog,          \* the commands passed to sendCommand, in order
    wire,            \* the ws.send calls, in order
    \* --- the manual controls ---
    mounted,         \* the component App renders: Controls or MobileControls
    reach,           \* the coordinate the finger of a one-finger run is dragged to
    activeKeys,      \* Controls: activeKeys.current
    speed,           \* Controls: the speed state
    ctlCmd,          \* Controls: the last command passed to onCommand, or NULL
    fingers,         \* per touch identifier: up, or the zone it came down in
    leftTouchId,     \* leftTouchId.current, or NULL
    leftOrigin,      \* leftOrigin.current, or NULL
    throttleRef,     \* throttleRef.current
    rightTouchId,    \* rightTouchId.current, or NULL
    rightOrigin,     \* rightOrigin.current, or NULL
    steerRef,        \* steerRef.current
    sinceLastCmd,    \* Date.now() - lastCmdTime.current, up to RateLimitMs + 1
    stickCmd,        \* the last command sendCombinedCommand passed to onCommand
    stickEvent,      \* the last touch handler that ran and what it did
    \* --- VideoFeed, image mode ---
    hasError,        \* the hasError state
    retryCount,      \* the retryCount state
    retryTimeoutRef, \* retryTimeoutRef.current: NULL or a timer handle
    timers,          \* the handles of the timers that are pending
    timerSeq,        \* setTimeout calls so far (the last handle given out)
    img,             \* the <img>: loading, loaded, or none (error view shown)
    imgErrors,       \* load errors so far
    configEdits      \* changes of the camera configuration so far

mapVars == <<fcArgs, sinkCmd>>
ctlVars == <<activeKeys, speed, ctlCmd>>
stickVars == <<fingers, leftTouchId, leftOrigin, throttleRef, rightTouchId, rightOrigin,
               steerRef, sinceLastCmd, stickCmd, stickEvent>>
manualVars == <<mounted, reach, ctlVars, stickVars>>
feedVars == <<hasError, retryCount, retryTimeoutRef, timers, timerSeq, img, imgErrors,
              configEdits>>
appVars == <<sockets, wsRef, connectionState, lastCmdRef, cmdLog, wire>>
codecVars == <<sample, pcmBytes, decoded>>
sceneVars == <<sceneCall, sceneResult>>
toggleVars == <<toggles, disabled, servoLog, toggleReq>>
\* the units outside the live session
\* the units of the operator interface (App and its components)
uiVars == <<appVars, manualVars, feedVars>>
unitVars == <<codecVars, sceneVars, toggleVars, uiVars>>
fieldVars == <<sessionPromise, audioContext, source, inputProcessor>>
envVars == <<nconn, conn, ctxState, procs, thenQ, captured, callbacks, disc>>
playVars == <<nextStartTime, schedule>>
handlerVars == <<handlers, nextId, sinkLog, settled, transcripts>>
deviceVars == <<released>>
vars == <<mapVars, unitVars, deviceVars, fieldVars, envVars, playVars, handlerVars, tx, now>>

\* ------------------------------------------------------------------------
\* The moveRobot dispatcher (onmessage, the body of the for loop)
\* ------------------------------------------------------------------------
\* faulty variant: an absent speed is taken as 0, a given one as it is
SpeedOfNoDefault(args) == IF args.speed = ABSENT THEN 0 ELSE args.speed[1]

\* const spd = (fc.args.speed as number) || 200 : undefined, null and 0 are falsy
SpeedOf(args) ==
    IF args.speed = ABSENT \/ args.speed[1] = 0 THEN DefaultSpeed ELSE args.speed[1]

\* faulty variant: left and right swapped
MotorCommandOfSwapped(args) ==
    LET spd == SpeedOf(args)
        dir == args.direction
    IN  [cmd |-> "move",
         throttle |-> IF dir = "forward" THEN spd
                      ELSE IF dir = "backward" THEN -spd ELSE 0,
         steer |-> IF dir = "left" THEN spd
                   ELSE IF dir = "right" THEN -spd ELSE 0]

\* faulty variant: a direction that matches no case is taken as forward
MotorCommandOfFallThrough(args) ==
    LET spd == SpeedOf(args)
        dir == args.direction
    IN  [cmd |-> "move",
         throttle |-> IF dir = "backward" THEN -spd
                      ELSE IF dir \in {"left", "right", "stop"} THEN 0 ELSE spd,
         steer |-> IF dir = "left" THEN -spd
                   ELSE IF dir = "right" THEN spd ELSE 0]

\* let throttle = 0, steer = 0; switch (dir) {...}; cmd = {cmd:'move', throttle, steer}
MotorCommandOf(args) ==
    LET spd == SpeedOf(args)
        dir == args.direction
    IN  [cmd |-> "move",
         throttle |-> IF dir = "forward" THEN spd
                      ELSE IF dir = "backward" THEN -spd ELSE 0,
         steer |-> IF dir = "left" THEN -spd
                   ELSE IF dir = "right" THEN spd ELSE 0]

\* ------------------------------------------------------------------------
\* The units outside the live session, before they are used
\* ------------------------------------------------------------------------
CodecIdle == sample = 0 /\ pcmBytes = NULL /\ decoded = NULL

SceneIdle ==
    /\ sceneCall = [image |-> "raw", outcome |-> "text"]
    /\ sceneResult = NULL

\* useState<ToggleState>({ head: false, top: false, skirt: false })
TogglesClosed == [head |-> FALSE, top |-> FALSE, skirt |-> FALSE]

TogglesInit ==
    /\ toggles = TogglesClosed
    /\ disabled = FALSE
    /\ servoLog = <<>>
    /\ toggleReq = NULL

\* useState(ConnectionState.DISCONNECTED), useRef(null), useRef('')
AppIdle ==
    /\ sockets = <<>>
    /\ wsRef = 0
    /\ connectionState = "DISCONNECTED"
    /\ lastCmdRef = <<>>
    /\ cmdLog = <<>>
    /\ wire = <<>>

\* Controls: useState(200), useRef(new Set())
ControlsIdle ==
    /\ activeKeys = {}
    /\ speed = InitialSpeed
    /\ ctlCmd = NULL

\* MobileControls: the refs of the sticks; lastCmdTime is 0 and Date.now()
\* is far beyond it
SticksIdle ==
    /\ fingers = [id \in 0..(MaxTouches - 1) |-> "up"]
    /\ leftTouchId = NULL /\ leftOrigin = NULL /\ throttleRef = 0
    /\ rightTouchId = NULL /\ rightOrigin = NULL /\ steerRef = 0
    /\ sinceLastCmd = RateLimitMs + 1
    /\ stickCmd = NULL
    /\ stickEvent = [handler |-> "none", tracked |-> FALSE, delta |-> 0, emitted |-> FALSE,
                     elapsed |-> RateLimitMs + 1]

ManualIdle == mounted = "Controls" /\ reach = 0 /\ ControlsIdle /\ SticksIdle

\* VideoFeed: useState(false), useState(0), useRef(null); the image of the
\* configured camera is loading
FeedIdle ==
    /\ hasError = FALSE
    /\ retryCount = 0
    /\ retryTimeoutRef = NULL
    /\ timers = {}
    /\ timerSeq = 0
    /\ img = "loading"
    /\ imgErrors = 0
    /\ configEdits = 0

UiIdle == AppIdle /\ ManualIdle /\ FeedIdle

\* ------------------------------------------------------------------------
\* The service after its constructor, and after a completed connect()
\* ------------------------------------------------------------------------
Connects == 1..MaxConnects

NoConn == [mic |-> "none", transport |-> "none", resolved |-> FALSE]

\* the fields' initializers and the constructor: outputContext is created there
\* and never cleared or closed afterwards
ServiceConstructed ==
    /\ sessionPromise = 0
    /\ audioContext = 0
    /\ source = 0
    /\ inputProcessor = 0
    /\ nextStartTime = 0
    /\ nconn = 0
    /\ conn = [k \in Connects |-> NoConn]
    /\ ctxState = [k \in Connects |-> "none"]
    /\ procs = <<>>
    /\ thenQ = [k \in Connects |-> <<>>]
    /\ captured = 0
    /\ callbacks = [onClose |-> 0, onError |-> 0]
    /\ disc = [calls |-> 0, closing |-> 0, rejected |-> 0, midConnect |-> {}]
    /\ released = [mic |-> 0, output |-> 0]
    /\ tx = <<>>
    /\ now = 0
    /\ handlers = <<>>
    /\ nextId = 1
    /\ sinkLog = <<>>
    /\ settled = {}
    /\ schedule = <<>>
    /\ transcripts = <<>>

\* the state one connect() leads to: microphone granted, onopen has run and
\* the session promise has resolved
ServiceOpen ==
    /\ sessionPromise = 1
    /\ audioContext = 1
    /\ source = 1
    /\ inputProcessor = 1
    /\ nextStartTime = 0
    /\ nconn = 1
    /\ conn = [k \in Connects |->
                 IF k = 1 THEN [mic |-> "granted", transport |-> "open", resolved |-> TRUE]
                 ELSE NoConn]
    /\ ctxState = [k \in Connects |-> IF k = 1 THEN "running" ELSE "none"]
    /\ procs = <<[ctx |-> 1, stream |-> 1, wired |-> TRUE]>>
    /\ thenQ = [k \in Connects |-> <<>>]
    /\ captured = 0
    /\ callbacks = [onClose |-> 0, onError |-> 0]
    /\ disc = [calls |-> 0, closing |-> 0, rejected |-> 0, midConnect |-> {}]
    /\ released = [mic |-> 0, output |-> 0]
    /\ tx = <<>>
    /\ now = 0
    /\ handlers = <<>>
    /\ nextId = 1
    /\ sinkLog = <<>>
    /\ settled = {}
    /\ schedule = <<>>
    /\ transcripts = <<>>

\* the variables of the service alone
serviceVarsOnly == <<deviceVars, fieldVars, envVars, playVars, handlerVars, tx, now>>
serviceVars == <<unitVars, deviceVars, fieldVars, envVars, playVars, handlerVars, tx, now>>

\* ------------------------------------------------------------------------
\* Transmission on a session: this.sessionPromise?.then(session => session.send(..))
\* ------------------------------------------------------------------------
\* a unit to transmit: a realtime-input frame or a tool response
FrameItem(n) == [kind |-> "frame", id |-> n, name |-> "", result |-> ""]

\* faulty variant: the response carries the name but a constant id
ToolResponseOfFixedId(fc, result) ==
    [kind |-> "tool", id |-> 1, name |-> fc.name, result |-> result]

\* functionResponses: { id: fc.id, name: fc.name, response: { result } }
ToolResponseOf(fc, result) ==
    [kind |-> "tool", id |-> fc.id, name |-> fc.name, result |-> result]

\* a disconnect() call has run to its end (config.onClose() at its last line)
Disconnected == disc.calls - disc.closing - disc.rejected > 0

\* waited: whether the unit waited for the session promise to resolve;
\* torn: whether a disconnect() had completed when the unit was sent
OnWire(k, item, waited) ==
    [session |-> k, kind |-> item.kind, id |-> item.id,
     name |-> item.name, result |-> item.result, waited |-> waited,
     torn |-> Disconnected]

\* faulty variant: the callbacks waiting on the promise run last-registered first
TransmitReversed(log, k, items, waited) ==
    IF conn[k].transport = "open"
    THEN log \o [j \in 1..Len(items) |-> OnWire(k, items[Len(items) + 1 - j], waited)]
    ELSE log

\* faulty variant: the units are put on the wire whatever the transport's state
TransmitUnchecked(log, k, items, waited) ==
    log \o [j \in 1..Len(items) |-> OnWire(k, items[j], waited)]

\* session.sendRealtimeInput / sendToolResponse of session k for each item, in
\* the order the then-callbacks were registered; a transport that is no
\* longer open drops what it is given
Transmit(log, k, items, waited) ==
    IF conn[k].transport = "open"
    THEN log \o [j \in 1..Len(items) |-> OnWire(k, items[j], waited)]
    ELSE log

\* this.sessionPromise?.then(cb): nothing when the field is null; cb runs in a
\* microtask when the promise is already resolved, and waits on it otherwise
ThenSend(item) ==
    IF sessionPromise = 0
    THEN UNCHANGED <<tx, thenQ>>
    ELSE IF conn[sessionPromise].resolved
         THEN /\ tx' = Transmit(tx, sessionPromise, <<item>>, FALSE)
              /\ UNCHANGED thenQ
         ELSE /\ thenQ' = [thenQ EXCEPT ![sessionPromise] = Append(@, item)]
              /\ UNCHANGED tx

\* ------------------------------------------------------------------------
\* The playback scheduler (playAudio)
\* ------------------------------------------------------------------------
\* faulty variant: the cursor is ignored
StartTimeOfNow(t, cursor) == t

\* const startTime = Math.max(now, this.nextStartTime)
StartTimeOf(t, cursor) == IF t > cursor THEN t ELSE cursor

\* faulty variant: the cursor is left at the start of the chunk
CursorAfterStart(startTime, dur) == startTime

\* this.nextStartTime = startTime + audioBuffer.duration
CursorAfter(startTime, dur) == startTime + dur

\* playAudio of the chunk of handler h, lasting dur: decodeAudioData has no
\* await of its own, so the decode and the scheduling run in the microtasks
\* of one task, and lines 194-198 are synchronous; at: the clock value read
PlayAudio(h, dur) ==
    LET startTime == StartTimeOf(now, nextStartTime)
    IN  /\ schedule' = Append(schedule,
                [msg |-> h, at |-> now, start |-> startTime, dur |-> dur])
        /\ nextStartTime' = CursorAfter(startTime, dur)

\* ------------------------------------------------------------------------
\* The inbound message handler (callbacks.onmessage)
\* ------------------------------------------------------------------------
Min(S) == CHOOSE x \in S : \A y \in S : x <= y

\* faulty variant: every function call is taken for a moveRobot call
IsMoveRobotAny(fc) == TRUE

\* if (fc.name === 'moveRobot')
IsMoveRobot(fc) == fc.name = "moveRobot"

\* faulty variant: the loop is left after the first moveRobot call of the batch
FirstMoveOnce(calls, from) ==
    LET S == {j \in 1..Len(calls) : IsMoveRobot(calls[j])}
    IN  IF from = 1 /\ S # {} THEN Min(S) ELSE 0

\* the next call of the batch the for loop dispatches, from index `from` on
FirstMove(calls, from) ==
    LET S == {j \in from..Len(calls) : IsMoveRobot(calls[j])}
    IN  IF S = {} THEN 0 ELSE Min(S)

\* the handler of event h runs on from call `from` of its batch (hs: the
\* handlers with h's record in place) up to its next await or to its end:
\* a moveRobot call is handed to the sink and awaited; after the batch the
\* audio of the event is scheduled and its text forwarded
RunHandler(hs, h, from) ==
    LET rec == hs[h]
        j == FirstMove(rec.calls, from)
    IN  IF j # 0
        THEN /\ handlers' = [hs EXCEPT ![h] = [rec EXCEPT !.i = j, !.pc = "awaitSink"]]
             /\ sinkLog' = Append(sinkLog,
                    [id |-> rec.calls[j].id, cmd |-> MotorCommandOf(rec.calls[j].args)])
             /\ UNCHANGED <<playVars, transcripts>>
        ELSE /\ handlers' = [hs EXCEPT ![h] = [rec EXCEPT !.i = 0, !.pc = "done"]]
             /\ UNCHANGED sinkLog
             /\ IF rec.audio > 0 THEN PlayAudio(h, rec.audio) ELSE UNCHANGED playVars
             /\ transcripts' = IF rec.text THEN Append(transcripts, h) ELSE transcripts

\* the names the remote side uses in its function calls: the declared tool
\* and one the service does not know
CallNames == {"moveRobot", "getStatus"}
BatchShapes == UNION {[1..n -> CallNames] : n \in 0..MaxCalls}
\* the arguments of the remote side's function calls: call id carries the
\* id-th record of this list (cyclically)
EventArgs ==
    <<[direction |-> "forward", speed |-> Some(150)],
      [direction |-> UnknownDirection, speed |-> ABSENT],
      [direction |-> "left", speed |-> Some(300)]>>
ArgsOfCall(id) == EventArgs[((id - 1) % Len(EventArgs)) + 1]
\* the status strings the sink may answer with
SinkResults == {"OK", "Sent"}
\* the durations of the audio chunks of the events
ChunkDurations == 1..MaxDur

\* an inbound event arrives on open session k: its function calls get the
\* remote side's next ids, and its handler starts; args: the arguments
\* of the call of each id; torn: whether a disconnect() had completed when
\* the event arrived
OnMessageWith(k, batch, audio, text, args) ==
    /\ nextId - 1 + Len(batch) <= MaxCalls
    /\ conn[k].transport = "open"
    /\ LET calls == [j \in 1..Len(batch) |->
                        [id |-> nextId + j - 1, name |-> batch[j],
                         args |-> args[nextId + j - 1]]]
           rec == [session |-> k, calls |-> calls, i |-> 0, pc |-> "start",
                   audio |-> audio, text |-> text, torn |-> Disconnected]
       IN  /\ nextId' = nextId + Len(batch)
           /\ RunHandler(Append(handlers, rec), Len(handlers) + 1, 1)
    /\ UNCHANGED <<mapVars, unitVars, deviceVars, fieldVars, envVars, tx, now, settled>>

\* an inbound event whose calls carry the arguments of the list EventArgs
OnMessage(k, batch, audio, text) ==
    OnMessageWith(k, batch, audio, text, [id \in 1..MaxCalls |-> ArgsOfCall(id)])

\* an inbound event with one moveRobot call that carries the arguments fcArgs
OnMoveRobot(k) ==
    /\ handlers = <<>>
    /\ OnMessageWith(k, <<"moveRobot">>, 0, FALSE, [id \in 1..MaxCalls |-> fcArgs])

\* the sink's promise for the awaited call of handler h fulfils with `result`:
\* the response is sent through the session promise and the loop goes on
SinkFulfil(h, result) ==
    /\ handlers[h].pc = "awaitSink"
    /\ LET fc == handlers[h].calls[handlers[h].i]
       IN  /\ settled' = settled \cup {[id |-> fc.id, outcome |-> "fulfilled", result |-> result]}
           /\ ThenSend(ToolResponseOf(fc, result))
           /\ RunHandler(handlers, h, handlers[h].i + 1)
    /\ UNCHANGED <<mapVars, unitVars, deviceVars, fieldVars, nconn, conn, ctxState, procs, now, nextId,
                   captured, callbacks, disc>>

\* the sink's promise rejects (or the sink throws): the await throws inside
\* the async handler, which has no try/catch, so the handler ends there
SinkReject(h) ==
    /\ handlers[h].pc = "awaitSink"
    /\ LET fc == handlers[h].calls[handlers[h].i]
       IN  settled' = settled \cup {[id |-> fc.id, outcome |-> "rejected", result |-> ""]}
    /\ handlers' = [handlers EXCEPT ![h].pc = "threw"]
    /\ UNCHANGED <<mapVars, unitVars, deviceVars, fieldVars, envVars, playVars, tx, now, nextId, sinkLog, transcripts>>

\* outputContext.currentTime advances
Tick ==
    /\ now < MaxTime
    /\ now' = now + 1
    /\ UNCHANGED <<mapVars, unitVars, deviceVars, fieldVars, envVars, playVars, handlerVars, tx>>

\* ------------------------------------------------------------------------
\* connect(), the transport's callbacks, the capture pipeline, disconnect()
\* ------------------------------------------------------------------------
\* connect() up to `await getUserMedia`: a new input AudioContext replaces
\* the field, whatever it held
Connect ==
    /\ nconn < MaxConnects
    /\ nconn' = nconn + 1
    /\ audioContext' = nconn + 1
    /\ ctxState' = [ctxState EXCEPT ![nconn + 1] = "running"]
    /\ conn' = [conn EXCEPT ![nconn + 1].mic = "pending"]
    /\ UNCHANGED <<mapVars, unitVars, deviceVars, sessionPromise, source, inputProcessor, procs, thenQ,
                   captured, callbacks, disc, playVars, handlerVars, tx, now>>

\* getUserMedia of connect() k fulfils: the session is requested and its
\* promise stored in the field
MicGranted(k) ==
    /\ conn[k].mic = "pending"
    /\ conn' = [conn EXCEPT ![k].mic = "granted", ![k].transport = "connecting"]
    /\ sessionPromise' = k
    /\ UNCHANGED <<mapVars, unitVars, deviceVars, audioContext, source, inputProcessor, nconn, ctxState,
                   procs, thenQ, captured, callbacks, disc, playVars, handlerVars,
                   tx, now>>

\* getUserMedia of connect() k rejects: connect() rejects at its await
MicDenied(k) ==
    /\ conn[k].mic = "pending"
    /\ conn' = [conn EXCEPT ![k].mic = "denied"]
    /\ UNCHANGED <<mapVars, unitVars, deviceVars, fieldVars, nconn, ctxState, procs, thenQ, captured,
                   callbacks, disc, playVars, handlerVars, tx, now>>

\* callbacks.onopen of session k: the capture nodes are created in the
\* context the field holds now, fed by the stream of connect() k
OnOpen(k) ==
    /\ conn[k].transport = "connecting"
    /\ conn' = [conn EXCEPT ![k].transport = "open"]
    /\ IF audioContext = 0
       THEN UNCHANGED <<procs, source, inputProcessor>>
       ELSE /\ procs' = Append(procs, [ctx |-> audioContext, stream |-> k, wired |-> TRUE])
            /\ source' = Len(procs) + 1
            /\ inputProcessor' = Len(procs) + 1
    /\ UNCHANGED <<mapVars, unitVars, deviceVars, sessionPromise, audioContext, nconn, ctxState, thenQ,
                   captured, callbacks, disc, playVars, handlerVars, tx, now>>

\* the promise of ai.live.connect resolves with the session, after onopen:
\* the callbacks registered on it run in registration order
PromiseResolve(k) ==
    /\ conn[k].transport = "open"
    /\ ~conn[k].resolved
    /\ conn' = [conn EXCEPT ![k].resolved = TRUE]
    /\ tx' = Transmit(tx, k, thenQ[k], TRUE)
    /\ thenQ' = [thenQ EXCEPT ![k] = <<>>]
    /\ UNCHANGED <<mapVars, unitVars, deviceVars, fieldVars, nconn, ctxState, procs, captured, callbacks,
                   disc, playVars, handlerVars, now>>

\* the capture nodes p deliver audio while they are connected and their
\* context is running
Capturing(p) == procs[p].wired /\ ctxState[procs[p].ctx] = "running"

\* inputProcessor.onaudioprocess of capture nodes p: the frame is encoded and
\* handed to the session promise the field holds now
Capture(p) ==
    /\ captured < MaxFrames
    /\ Capturing(p)
    /\ captured' = captured + 1
    /\ ThenSend(FrameItem(captured + 1))
    /\ UNCHANGED <<mapVars, unitVars, deviceVars, fieldVars, nconn, conn, ctxState, procs, callbacks, disc,
                   playVars, handlerVars, now>>

\* callbacks.onclose of session k
TransportClose(k) ==
    /\ conn[k].transport = "open"
    /\ conn[k].resolved
    /\ conn' = [conn EXCEPT ![k].transport = "closed"]
    /\ callbacks' = [callbacks EXCEPT !.onClose = @ + 1]
    /\ UNCHANGED <<mapVars, unitVars, deviceVars, fieldVars, nconn, ctxState, procs, thenQ, captured, disc,
                   playVars, handlerVars, tx, now>>

\* callbacks.onerror of session k: the connection fails, or an open one breaks
TransportError(k) ==
    /\ \/ conn[k].transport = "connecting"
       \/ conn[k].transport = "open" /\ conn[k].resolved
    /\ conn' = [conn EXCEPT ![k].transport = "error"]
    /\ callbacks' = [callbacks EXCEPT !.onError = @ + 1]
    /\ UNCHANGED <<mapVars, unitVars, deviceVars, fieldVars, nconn, ctxState, procs, thenQ, captured, disc,
                   playVars, handlerVars, tx, now>>

\* the capture nodes with the nodes the fields source and inputProcessor
\* hold disconnected
Unwired ==
    [p \in 1..Len(procs) |->
        IF p = source \/ p = inputProcessor
        THEN [procs[p] EXCEPT !.wired = FALSE] ELSE procs[p]]

\* the connect() calls that have not reached their session's open event:
\* awaiting the microphone, or granted with the session still connecting
InProgress ==
    {k \in Connects : conn[k].mic = "pending" \/ conn[k].transport = "connecting"}

\* disconnect() up to `await this.audioContext.close()`: without a context
\* it runs through to onClose; close() of a closed context rejects
DisconnectCall ==
    /\ disc.calls < MaxDisconnects
    /\ procs' = Unwired
    /\ IF audioContext = 0
       THEN /\ disc' = [disc EXCEPT !.calls = @ + 1, !.midConnect = @ \cup InProgress]
            /\ callbacks' = [callbacks EXCEPT !.onClose = @ + 1]
            /\ UNCHANGED ctxState
       ELSE IF ctxState[audioContext] = "closed"
            THEN /\ disc' = [disc EXCEPT !.calls = @ + 1, !.rejected = @ + 1,
                                         !.midConnect = @ \cup InProgress]
                 /\ UNCHANGED <<callbacks, ctxState>>
            ELSE /\ disc' = [disc EXCEPT !.calls = @ + 1, !.closing = @ + 1,
                                         !.midConnect = @ \cup InProgress]
                 /\ ctxState' = [ctxState EXCEPT ![audioContext] = "closed"]
                 /\ UNCHANGED callbacks
    /\ UNCHANGED <<mapVars, unitVars, deviceVars, fieldVars, nconn, conn, thenQ, captured, playVars,
                   handlerVars, tx, now>>

\* the close() promise of a disconnect() call resolves: config.onClose()
DisconnectDone ==
    /\ disc.closing > 0
    /\ disc' = [disc EXCEPT !.closing = @ - 1]
    /\ callbacks' = [callbacks EXCEPT !.onClose = @ + 1]
    /\ UNCHANGED <<mapVars, unitVars, deviceVars, fieldVars, nconn, conn, ctxState, procs, thenQ, captured,
                   playVars, handlerVars, tx, now>>

\* ------------------------------------------------------------------------
\* Specifications
\* ------------------------------------------------------------------------
InitHandler ==
    /\ CodecIdle /\ SceneIdle /\ TogglesInit /\ UiIdle
    /\ fcArgs = [direction |-> "stop", speed |-> ABSENT]
    /\ sinkCmd = NULL
    /\ ServiceOpen

\* the message handlers of one open session: events with tool calls, audio
\* and text, and a sink that fulfils or rejects
NextHandler ==
    \/ \E k \in Connects, batch \in BatchShapes, audio \in {0, 1}, text \in BOOLEAN :
           /\ Len(handlers) < MaxMsgs
           /\ OnMessage(k, batch, audio, text)
    \/ \E h \in 1..Len(handlers), r \in SinkResults : SinkFulfil(h, r)
    \/ \E h \in 1..Len(handlers) : SinkReject(h)

SpecHandler == InitHandler /\ [][NextHandler]_vars

\* the handlers of events with tool calls and audio, with a sink whose
\* every invocation is eventually fulfilled
NextResolving ==
    \/ \E k \in Connects, batch \in BatchShapes, audio \in {0, 1} :
           /\ Len(handlers) < MaxMsgs
           /\ OnMessage(k, batch, audio, FALSE)
    \/ \E h \in 1..Len(handlers), r \in SinkResults : SinkFulfil(h, r)

SpecResolving ==
    /\ InitHandler
    /\ [][NextResolving]_vars
    /\ \A h \in 1..MaxMsgs :
          WF_vars(h <= Len(handlers) /\ \E r \in SinkResults : SinkFulfil(h, r))

\* the playback scheduler under audio events of every duration arriving at
\* every time of the device clock
NextPlayback ==
    \/ \E k \in Connects, d \in ChunkDurations, text \in BOOLEAN :
           /\ Len(handlers) < MaxChunks
           /\ OnMessage(k, <<>>, d, text)
    \/ Tick

SpecPlayback == InitHandler /\ [][NextPlayback]_vars

InitService ==
    /\ CodecIdle /\ SceneIdle /\ TogglesInit /\ UiIdle
    /\ fcArgs = [direction |-> "stop", speed |-> ABSENT]
    /\ sinkCmd = NULL
    /\ ServiceConstructed

\* the capture pipeline: connect() calls, the microphone, the transports'
\* events and the audio frames
NextCapture ==
    \/ Connect
    \/ \E k \in Connects : MicGranted(k)
    \/ \E k \in Connects : MicDenied(k)
    \/ \E k \in Connects : OnOpen(k)
    \/ \E k \in Connects : PromiseResolve(k)
    \/ \E p \in 1..Len(procs) : Capture(p)
    \/ \E k \in Connects : TransportClose(k)
    \/ \E k \in Connects : TransportError(k)

SpecCapture == InitService /\ [][NextCapture]_vars

\* the life of a service instance: the capture pipeline and disconnect()
NextService ==
    \/ NextCapture
    \/ DisconnectCall
    \/ DisconnectDone

SpecService == InitService /\ [][NextService]_vars

\* one connected session and its teardown triggers: audio frames, events
\* with a moveRobot call, audio and text, a sink that fulfils, the
\* transport's close and error events, and disconnect() calls
NextTeardown ==
    \/ \E p \in 1..Len(procs) : Capture(p)
    \/ \E k \in Connects :
           /\ Len(handlers) < MaxMsgs
           /\ OnMessage(k, <<"moveRobot">>, 1, TRUE)
    \/ \E h \in 1..Len(handlers) : SinkFulfil(h, "OK")
    \/ \E k \in Connects : TransportClose(k)
    \/ \E k \in Connects : TransportError(k)
    \/ DisconnectCall
    \/ DisconnectDone

SpecTeardown == InitHandler /\ [][NextTeardown]_vars

\* disconnect() called before a session is open: before any connect(), while
\* a connect() awaits the microphone or while its session is connecting;
\* connect() calls may follow, and the pending ones run on
NextMidConnect ==
    \/ Connect
    \/ \E k \in Connects : MicGranted(k)
    \/ \E k \in Connects : OnOpen(k)
    \/ \E k \in Connects : PromiseResolve(k)
    \/ \E p \in 1..Len(procs) : Capture(p)
    \/ /\ \A k \in Connects : conn[k].transport # "open"
       /\ DisconnectCall
    \/ DisconnectDone

SpecMidConnect == InitService /\ [][NextMidConnect]_vars

\* the arguments the remote model may supply
SpeedArgs == {Some(n) : n \in -MaxSpeedArg..MaxSpeedArg} \cup {ABSENT}
ArgSpace == [direction : Directions \cup {UnknownDirection}, speed : SpeedArgs]

InitMap ==
    /\ CodecIdle /\ SceneIdle /\ TogglesInit /\ UiIdle
    /\ fcArgs \in ArgSpace
    /\ sinkCmd = NULL
    /\ ServiceConstructed

\* one moveRobot call: the command is built and handed to the sink
DispatchMove ==
    /\ sinkCmd = NULL
    /\ sinkCmd' = Some(MotorCommandOf(fcArgs))
    /\ UNCHANGED <<fcArgs, serviceVars>>

NextMap == DispatchMove

SpecMap == InitMap /\ [][NextMap]_vars

\* one moveRobot call with any arguments, from its arrival on an open
\* session to its tool response
InitDispatch ==
    /\ CodecIdle /\ SceneIdle /\ TogglesInit /\ UiIdle
    /\ fcArgs \in ArgSpace
    /\ sinkCmd = NULL
    /\ ServiceOpen

NextDispatch ==
    \/ \E k \in Connects : OnMoveRobot(k)
    \/ \E h \in 1..Len(handlers), r \in SinkResults : SinkFulfil(h, r)

SpecDispatch == InitDispatch /\ [][NextDispatch]_vars

\* ------------------------------------------------------------------------
\* The PCM codec: createPcmBlob (float -> 16-bit little-endian bytes) and
\* decodeAudioData (bytes -> float)
\* ------------------------------------------------------------------------
Abs(n) == IF n < 0 THEN -n ELSE n

\* the quotient rounded toward zero
TruncDiv(a, b) == IF a >= 0 THEN a \div b ELSE -((-a) \div b)

\* Math.max(-1, Math.min(1, data[i])), on numerators over GridDen
Clamp(n) == IF n < -GridDen THEN -GridDen ELSE IF n > GridDen THEN GridDen ELSE n

\* a store into an Int16Array element: truncate, then wrap to 16 bits
ToInt16(v) == ((v + 32768) % 65536) - 32768

\* faulty variant: the positive scale is used for both signs, and doubled
EncodeSampleCoarse(n) ==
    LET s == Clamp(n)
    IN  ToInt16(2 * TruncDiv(s * PosScale, 2 * GridDen))

\* int16[i] = s < 0 ? s * 0x8000 : s * 0x7FFF
EncodeSample(n) ==
    LET s == Clamp(n)
    IN  ToInt16(IF s < 0 THEN TruncDiv(s * NegScale, GridDen)
                         ELSE TruncDiv(s * PosScale, GridDen))

\* new Uint8Array(int16.buffer): the two's complement value, low byte first;
\* String.fromCharCode / btoa and atob / charCodeAt carry the bytes over
BytesOfInt16(v) ==
    LET u == (v + 65536) % 65536
    IN  <<u % 256, u \div 256>>

\* new Int16Array(data.buffer): low byte first, two's complement
Int16OfBytes(b) ==
    LET u == b[1] + 256 * b[2]
    IN  IF u >= 32768 THEN u - 65536 ELSE u

\* the input samples: the grid over [-1, 1] and as far again outside it
SampleGrid == (-2 * GridDen)..(2 * GridDen)

\* createPcmBlob of the sample
CreatePcmBlob ==
    /\ pcmBytes = NULL
    /\ pcmBytes' = Some(BytesOfInt16(EncodeSample(sample)))
    /\ UNCHANGED <<mapVars, sample, decoded, sceneVars, toggleVars, uiVars, serviceVarsOnly>>

\* decodeAudioData of the bytes: channelData[i] = dataInt16[i] / 32768.0,
\* kept as the numerator over DecodeScale
DecodeAudioData ==
    /\ pcmBytes # NULL
    /\ decoded = NULL
    /\ decoded' = Some(Int16OfBytes(pcmBytes[1]))
    /\ UNCHANGED <<mapVars, sample, pcmBytes, sceneVars, toggleVars, uiVars, serviceVarsOnly>>

InitCodec ==
    /\ fcArgs = [direction |-> "stop", speed |-> ABSENT]
    /\ sinkCmd = NULL
    /\ sample \in SampleGrid
    /\ pcmBytes = NULL
    /\ decoded = NULL
    /\ SceneIdle /\ TogglesInit /\ UiIdle
    /\ ServiceConstructed

NextCodec ==
    \/ CreatePcmBlob
    \/ DecodeAudioData

SpecCodec == InitCodec /\ [][NextCodec]_vars

\* ------------------------------------------------------------------------
\* analyzeScene
\* ------------------------------------------------------------------------
\* the image argument: bare base64, a data URL of the given subtype, or a
\* value that is not a string (undefined at run time)
SceneImages == {"raw", "png", "jpeg", "jpg", "gif", "webp", "notString"}
\* what ai.models.generateContent does: fulfils with text or without any,
\* or rejects with an Error, a string, null or undefined
SceneOutcomes ==
    {"text", "empty", "throwError", "throwString", "throwNull", "throwUndefined"}

\* base64Image.replace(/^data:image\/(png|jpeg|jpg);base64,/, ''): only these
\* three headers are removed
CleanBase64(image) == IF image \in {"png", "jpeg", "jpg"} THEN "raw" ELSE image

\* catch (e) { ...; return "Analysis failed: " + (e as Error).message }: a
\* string has no message property (undefined); reading a property of null
\* or undefined throws a TypeError out of the catch block
CatchOf(thrown) ==
    CASE thrown = "Error"  -> [settled |-> "resolved", value |-> "Analysis failed: message"]
      [] thrown = "string" -> [settled |-> "resolved", value |-> "Analysis failed: undefined"]
      [] OTHER             -> [settled |-> "rejected", value |-> "TypeError"]

\* analyzeScene up to its await: .replace on a value that is not a string
\* throws inside the try block
SceneStart ==
    /\ sceneResult = NULL
    /\ sceneResult' =
         IF sceneCall.image = "notString"
         THEN Some(CatchOf("Error") @@ [data |-> "none"])
         ELSE Some([settled |-> "awaiting", value |-> "",
                    data |-> CleanBase64(sceneCall.image)])
    /\ UNCHANGED <<mapVars, codecVars, sceneCall, toggleVars, uiVars, serviceVarsOnly>>

\* the model call settles: return response.text || "No analysis available.",
\* or the catch block
SceneSettle ==
    /\ sceneResult # NULL
    /\ sceneResult[1].settled = "awaiting"
    /\ LET o == sceneCall.outcome
           r == CASE o = "text"  -> [settled |-> "resolved", value |-> "model text"]
                  [] o = "empty" -> [settled |-> "resolved", value |-> "No analysis available."]
                  [] o = "throwError"  -> CatchOf("Error")
                  [] o = "throwString" -> CatchOf("string")
                  [] o = "throwNull"   -> CatchOf("null")
                  [] OTHER             -> CatchOf("undefined")
       IN  sceneResult' = Some(r @@ [data |-> sceneResult[1].data])
    /\ UNCHANGED <<mapVars, codecVars, sceneCall, toggleVars, uiVars, serviceVarsOnly>>

InitScene ==
    /\ fcArgs = [direction |-> "stop", speed |-> ABSENT]
    /\ sinkCmd = NULL
    /\ sceneCall \in [image : SceneImages, outcome : SceneOutcomes]
    /\ sceneResult = NULL
    /\ CodecIdle /\ TogglesInit /\ UiIdle
    /\ ServiceConstructed

NextScene ==
    \/ SceneStart
    \/ SceneSettle

SpecScene == InitScene /\ [][NextScene]_vars

\* ------------------------------------------------------------------------
\* MobileControls: the servo toggles (handleToggle)
\* ------------------------------------------------------------------------
ToggleTargets == {"head", "top", "skirt"}

\* faulty variant: only the first constraint is enforced
BlockedHeadOnly(t, target) == target = "head" /\ ~t.head /\ ~t.top

\* Constraint 1: if top is closed, head cannot be opened;
\* Constraint 2: if head is open, top cannot be closed
\* (newState = !toggles[target])
Blocked(t, target) ==
    \/ target = "head" /\ ~t.head /\ ~t.top
    \/ target = "top" /\ t.top /\ t.head

\* faulty variant: the state names are exchanged
ServoCommandOfInverted(target, newState) ==
    [cmd |-> "servo", target |-> target,
     state |-> IF newState THEN "close" ELSE "open"]

\* { cmd: 'servo', target, state: newState ? 'open' : 'close' }
ServoCommandOf(target, newState) ==
    [cmd |-> "servo", target |-> target,
     state |-> IF newState THEN "open" ELSE "close"]

\* handleToggle(target), a click on one of the three buttons; the component
\* is rendered again after each click, so the handler reads the toggles as
\* the click before left them, and the updater of setToggles runs on them
HandleToggle(target) ==
    /\ Len(servoLog) < MaxToggles
    /\ IF disabled
       THEN /\ toggleReq' = Some([target |-> target, outcome |-> "disabled"])
            /\ UNCHANGED <<toggles, servoLog>>
       ELSE LET newState == ~toggles[target]
            IN  IF Blocked(toggles, target)
                THEN /\ toggleReq' = Some([target |-> target, outcome |-> "blocked"])
                     /\ UNCHANGED <<toggles, servoLog>>
                ELSE /\ toggleReq' = Some([target |-> target, outcome |-> "applied"])
                     /\ toggles' = [toggles EXCEPT ![target] = newState]
                     /\ servoLog' = Append(servoLog, ServoCommandOf(target, newState))
    /\ UNCHANGED <<mapVars, codecVars, sceneVars, disabled, uiVars, serviceVarsOnly>>

\* the parent renders the component with another value of the disabled prop
SetDisabled(b) ==
    /\ b # disabled
    /\ disabled' = b
    /\ UNCHANGED <<mapVars, codecVars, sceneVars, toggles, servoLog, toggleReq,
                   uiVars, serviceVarsOnly>>

InitToggles ==
    /\ fcArgs = [direction |-> "stop", speed |-> ABSENT]
    /\ sinkCmd = NULL
    /\ CodecIdle /\ SceneIdle /\ TogglesInit /\ UiIdle
    /\ ServiceConstructed

NextToggles ==
    \/ \E target \in ToggleTargets : HandleToggle(target)
    \/ \E b \in BOOLEAN : SetDisabled(b)

SpecToggles == InitToggles /\ [][NextToggles]_vars

\* ------------------------------------------------------------------------
\* App: the robot WebSocket (connectRobot, disconnectRobot, sendCommand)
\* ------------------------------------------------------------------------
\* everything outside the operator interface
nonUiVars == <<mapVars, codecVars, sceneVars, toggleVars, serviceVarsOnly>>

\* what an action of App leaves alone
AppFrame == UNCHANGED <<nonUiVars, manualVars, feedVars>>

\* the commands the controls pass to sendCommand: a stop, a drive and an emote
StopCommand == [cmd |-> "move", throttle |-> 0, steer |-> 0]
AppCommands ==
    <<StopCommand,
      [cmd |-> "move", throttle |-> DefaultSpeed, steer |-> 0],
      [cmd |-> "emote", id |-> 1]>>

\* JSON.stringify(cmd): the keys and the values, in insertion order
JsonOf(cmd) ==
    IF cmd.cmd = "emote"
    THEN <<"cmd", "emote", "id", cmd.id>>
    ELSE <<"cmd", "move", "throttle", cmd.throttle, "steer", cmd.steer>>

\* wsRef.current?.readyState === WebSocket.OPEN
CurrentOpen == wsRef # 0 /\ sockets[wsRef] = "OPEN"

\* faulty variant: every command is remembered, emotes too
RememberedAny(cmd, last) == JsonOf(cmd)

\* if (cmd.cmd !== 'emote') { ...; lastCmdRef.current = cmdStr }
Remembered(cmd, last) == IF cmd.cmd # "emote" THEN JsonOf(cmd) ELSE last

\* connectRobot: returns when the current socket is open; otherwise
\* setConnectionState(CONNECTING) and new WebSocket(wsUrl), which throws on a
\* url it cannot parse or may not open (the catch block sets ERROR) or
\* yields a connecting socket that is stored in wsRef
ConnectRobot(throws) ==
    /\ IF CurrentOpen
       THEN UNCHANGED appVars
       ELSE IF throws
       THEN /\ connectionState' = "ERROR"
            /\ UNCHANGED <<sockets, wsRef>>
       ELSE /\ Len(sockets) < MaxSockets
            /\ sockets' = Append(sockets, "CONNECTING")
            /\ wsRef' = Len(sockets) + 1
            /\ connectionState' = "CONNECTING"
    /\ UNCHANGED <<lastCmdRef, cmdLog, wire>>
    /\ AppFrame

\* ws.onopen of socket i
WsOpen(i) ==
    /\ sockets[i] = "CONNECTING"
    /\ sockets' = [sockets EXCEPT ![i] = "OPEN"]
    /\ connectionState' = "CONNECTED"
    /\ UNCHANGED <<wsRef, lastCmdRef, cmdLog, wire>>
    /\ AppFrame

\* socket i is closed: the connection failed, was dropped, or the closing
\* handshake ended. One task sets readyState to CLOSED, fires error when the
\* connection failed (ws.onerror sets ERROR) and then close (ws.onclose
\* sets DISCONNECTED)
WsClosed(i) ==
    /\ sockets[i] \in {"CONNECTING", "OPEN", "CLOSING"}
    /\ sockets' = [sockets EXCEPT ![i] = "CLOSED"]
    /\ connectionState' = "DISCONNECTED"
    /\ UNCHANGED <<wsRef, lastCmdRef, cmdLog, wire>>
    /\ AppFrame

\* disconnectRobot: close() starts the closing handshake of the current
\* socket and wsRef is cleared; DISCONNECTED is set in any case
DisconnectRobot ==
    /\ IF wsRef # 0
       THEN /\ sockets' = [sockets EXCEPT ![wsRef] =
                              IF @ \in {"CONNECTING", "OPEN"} THEN "CLOSING" ELSE @]
            /\ wsRef' = 0
       ELSE UNCHANGED <<sockets, wsRef>>
    /\ connectionState' = "DISCONNECTED"
    /\ UNCHANGED <<lastCmdRef, cmdLog, wire>>
    /\ AppFrame

\* sendCommand(cmd): a command other than an emote whose text equals the
\* remembered one is dropped; otherwise it is remembered (emotes are not)
\* and sent when the current socket is open
SendCommand(cmd) ==
    /\ Len(cmdLog) < MaxSends
    /\ cmdLog' = Append(cmdLog, [cmd |-> cmd, ws |-> IF CurrentOpen THEN wsRef ELSE 0])
    /\ IF cmd.cmd # "emote" /\ JsonOf(cmd) = lastCmdRef
       THEN UNCHANGED <<lastCmdRef, wire>>
       ELSE /\ lastCmdRef' = Remembered(cmd, lastCmdRef)
            /\ IF CurrentOpen
               THEN wire' = Append(wire, [ws |-> wsRef, call |-> Len(cmdLog) + 1,
                                          data |-> JsonOf(cmd)])
               ELSE UNCHANGED wire
    /\ UNCHANGED <<sockets, wsRef, connectionState>>
    /\ AppFrame

InitApp ==
    /\ fcArgs = [direction |-> "stop", speed |-> ABSENT]
    /\ sinkCmd = NULL
    /\ CodecIdle /\ SceneIdle /\ TogglesInit /\ UiIdle
    /\ ServiceConstructed

\* the link button calls disconnectRobot while connectionState is CONNECTED
\* and connectRobot otherwise; the controls call sendCommand at any time
NextApp ==
    \/ connectionState # "CONNECTED" /\ \E throws \in BOOLEAN : ConnectRobot(throws)
    \/ connectionState = "CONNECTED" /\ DisconnectRobot
    \/ \E i \in 1..Len(sockets) : WsOpen(i)
    \/ \E i \in 1..Len(sockets) : WsClosed(i)
    \/ \E c \in 1..Len(AppCommands) : SendCommand(AppCommands[c])

SpecApp == InitApp /\ [][NextApp]_vars

\* ------------------------------------------------------------------------
\* The manual controls: Controls (keys and buttons) and the two sticks of
\* MobileControls. App renders one of the two, by the layout
\* ------------------------------------------------------------------------
\* what an action of the manual controls leaves alone
ManualFrame == UNCHANGED <<nonUiVars, appVars, feedVars>>

\* Math.max(-255, Math.min(255, v))
ClampPwm(v) == IF v < -PwmMax THEN -PwmMax ELSE IF v > PwmMax THEN PwmMax ELSE v

\* the keys the keyboard handlers accept, and those the buttons simulate
MoveKeys == {"w", "a", "s", "d", "arrowup", "arrowdown", "arrowleft", "arrowright"}
ButtonKeys == {"w", "a", "s", "d"}
\* positions of the speed slider (min 0, max 255)
SpeedChoices == {0, 1, InitialSpeed, PwmMax}

\* faulty variant: opposite keys do not cancel, the forward key wins
ProcessInputCmdForwardWins(keys, spd) ==
    [cmd |-> "move",
     throttle |-> ClampPwm(IF keys \cap {"w", "arrowup"} # {} THEN spd
                           ELSE IF keys \cap {"s", "arrowdown"} # {} THEN -spd ELSE 0),
     steer |-> ClampPwm(IF keys \cap {"d", "arrowright"} # {} THEN spd
                        ELSE IF keys \cap {"a", "arrowleft"} # {} THEN -spd ELSE 0)]

\* processInput: throttle += speed / -= speed and steer += speed / -= speed
\* by the active keys, both clamped, in a move command
ProcessInputCmd(keys, spd) ==
    LET up    == IF keys \cap {"w", "arrowup"} # {} THEN spd ELSE 0
        down  == IF keys \cap {"s", "arrowdown"} # {} THEN spd ELSE 0
        right == IF keys \cap {"d", "arrowright"} # {} THEN spd ELSE 0
        left  == IF keys \cap {"a", "arrowleft"} # {} THEN spd ELSE 0
    IN  [cmd |-> "move", throttle |-> ClampPwm(up - down), steer |-> ClampPwm(right - left)]

\* handleKeyDown of a key that is not a repeat: the space bar is stopAll,
\* a move key is added; processInput follows
KeyDown(key) ==
    /\ mounted = "Controls"
    /\ activeKeys' = IF key = " " THEN {} ELSE activeKeys \cup {key}
    /\ ctlCmd' = Some(ProcessInputCmd(activeKeys', speed))
    /\ UNCHANGED <<mounted, reach, speed, stickVars>>
    /\ ManualFrame

\* handleKeyUp: a key that is active is removed; processInput follows
KeyUp(key) ==
    /\ mounted = "Controls"
    /\ key \in activeKeys
    /\ activeKeys' = activeKeys \ {key}
    /\ ctlCmd' = Some(ProcessInputCmd(activeKeys', speed))
    /\ UNCHANGED <<mounted, reach, speed, stickVars>>
    /\ ManualFrame

\* handleBtn(key, pressed) of the four arrow buttons
HandleBtn(key, pressed) ==
    /\ mounted = "Controls"
    /\ activeKeys' = IF pressed THEN activeKeys \cup {key} ELSE activeKeys \ {key}
    /\ ctlCmd' = Some(ProcessInputCmd(activeKeys', speed))
    /\ UNCHANGED <<mounted, reach, speed, stickVars>>
    /\ ManualFrame

\* stopAll, the stop button
StopAll ==
    /\ mounted = "Controls"
    /\ activeKeys' = {}
    /\ ctlCmd' = Some(ProcessInputCmd(activeKeys', speed))
    /\ UNCHANGED <<mounted, reach, speed, stickVars>>
    /\ ManualFrame

\* the speed slider: setSpeed(Number(e.target.value))
SetSpeed(v) ==
    /\ mounted = "Controls"
    /\ v # speed
    /\ speed' = v
    /\ UNCHANGED <<mounted, reach, activeKeys, ctlCmd, stickVars>>
    /\ ManualFrame

\* --- the sticks ---
TouchIds == 0..(MaxTouches - 1)

\* a coordinate of a touch along the axis of its stick, relative to the
\* point where touches start
FullPositions == (-MaxDelta)..MaxDelta
StickStops == {-MaxDelta, 0, MaxDelta \div 2}

\* faulty variant: the deflection is not clamped to the pixel range
ScaledUnclamped(delta, maxDist) ==
    LET n == PwmMax * delta
        q == (2 * n + maxDist) \div (2 * maxDist)
    IN  IF (2 * n + maxDist) % (2 * maxDist) = 0 THEN {q - 1, q} ELSE {q}

\* uiVal = Math.max(-100, Math.min(100, (delta / maxDist) * 100));
\* Math.round((uiVal / 100) * 255): the nearest integer of
\* 255 * clamped delta / maxDist. Where that is exactly halfway between two
\* integers the double computed for it lies a rounding error beside it, on
\* either side, and Math.round yields the integer below or the one above
Scaled(delta, maxDist) ==
    LET dc == IF delta < -maxDist THEN -maxDist ELSE IF delta > maxDist THEN maxDist ELSE delta
        n == PwmMax * dc
        q == (2 * n + maxDist) \div (2 * maxDist)
    IN  IF (2 * n + maxDist) % (2 * maxDist) = 0 THEN {q - 1, q} ELSE {q}

\* if (Math.abs(val) < 20) val = 0
Deadzoned(v) == IF Abs(v) < Deadzone THEN 0 ELSE v

\* faulty variant: a forced command is rate limited like any other
EmitsRateLimited(force, t, s) ==
    /\ ~disabled
    /\ (sinceLastCmd > RateLimitMs \/ (t = 0 /\ s = 0))

\* sendCombinedCommand(force) calls onCommand: not disabled, and forced, or
\* more than 16 ms after the last command, or both axes 0
Emits(force, t, s) ==
    /\ ~disabled
    /\ (force \/ sinceLastCmd > RateLimitMs \/ (t = 0 /\ s = 0))

\* sendCombinedCommand(force) with the refs as the handler leaves them
SendCombinedCommand(force, t, s) ==
    IF Emits(force, t, s)
    THEN /\ stickCmd' = Some([cmd |-> "move", throttle |-> t, steer |-> s])
         /\ sinceLastCmd' = 0
    ELSE UNCHANGED <<stickCmd, sinceLastCmd>>

\* what a touch handler did: whether the event held the tracked touch, the
\* deflection it read, whether onCommand was called, and the milliseconds
\* since the last command when it ran
StickEvent(handler, tracked, delta, emitted) ==
    [handler |-> handler, tracked |-> tracked, delta |-> delta, emitted |-> emitted,
     elapsed |-> sinceLastCmd]

\* a finger comes down in the zone of a stick: handleLeftStart /
\* handleRightStart with that touch as changedTouches[0]
TouchStart(zone, id, pos) ==
    /\ mounted = "MobileControls"
    /\ fingers[id] = "up"
    /\ fingers' = [fingers EXCEPT ![id] = zone]
    /\ LET free == IF zone = "left" THEN leftTouchId = NULL ELSE rightTouchId = NULL
       IN  IF ~disabled /\ free
           THEN /\ stickEvent' = StickEvent(zone \o "Start", TRUE, 0, FALSE)
                /\ IF zone = "left"
                   THEN /\ leftTouchId' = Some(id)
                        /\ leftOrigin' = Some(pos)
                        /\ UNCHANGED <<rightTouchId, rightOrigin>>
                   ELSE /\ rightTouchId' = Some(id)
                        /\ rightOrigin' = Some(pos)
                        /\ UNCHANGED <<leftTouchId, leftOrigin>>
           ELSE /\ stickEvent' = StickEvent(zone \o "Start", FALSE, 0, FALSE)
                /\ UNCHANGED <<leftTouchId, leftOrigin, rightTouchId, rightOrigin>>
    /\ UNCHANGED <<mounted, reach, ctlVars, throttleRef, steerRef, stickCmd, sinceLastCmd>>
    /\ ManualFrame

\* handleLeftMove: changed maps the identifiers in changedTouches to their
\* clientY; delta = leftOrigin - currentY
LeftMove(changed) ==
    /\ mounted = "MobileControls"
    /\ DOMAIN changed # {}
    /\ \A id \in DOMAIN changed : fingers[id] = "left"
    /\ IF leftTouchId # NULL /\ leftTouchId[1] \in DOMAIN changed
       THEN LET delta == leftOrigin[1] - changed[leftTouchId[1]]
            IN  \E v \in Scaled(delta, LeftRange) :
                   /\ throttleRef' = Deadzoned(v)
                   /\ SendCombinedCommand(FALSE, throttleRef', steerRef)
                   /\ stickEvent' = StickEvent("leftMove", TRUE, delta,
                                               Emits(FALSE, throttleRef', steerRef))
       ELSE /\ stickEvent' = StickEvent("leftMove", FALSE, 0, FALSE)
            /\ UNCHANGED <<throttleRef, stickCmd, sinceLastCmd>>
    /\ UNCHANGED <<mounted, reach, ctlVars, fingers, leftTouchId, leftOrigin, rightTouchId,
                   rightOrigin, steerRef>>
    /\ ManualFrame

\* handleRightMove: delta = currentX - rightOrigin
RightMove(changed) ==
    /\ mounted = "MobileControls"
    /\ DOMAIN changed # {}
    /\ \A id \in DOMAIN changed : fingers[id] = "right"
    /\ IF rightTouchId # NULL /\ rightTouchId[1] \in DOMAIN changed
       THEN LET delta == changed[rightTouchId[1]] - rightOrigin[1]
            IN  \E v \in Scaled(delta, RightRange) :
                   /\ steerRef' = Deadzoned(v)
                   /\ SendCombinedCommand(FALSE, throttleRef, steerRef')
                   /\ stickEvent' = StickEvent("rightMove", TRUE, delta,
                                               Emits(FALSE, throttleRef, steerRef'))
       ELSE /\ stickEvent' = StickEvent("rightMove", FALSE, 0, FALSE)
            /\ UNCHANGED <<steerRef, stickCmd, sinceLastCmd>>
    /\ UNCHANGED <<mounted, reach, ctlVars, fingers, leftTouchId, leftOrigin, rightTouchId,
                   rightOrigin, throttleRef>>
    /\ ManualFrame

\* handleLeftEnd, bound to touchend and touchcancel: ended are the
\* identifiers in changedTouches
LeftEnd(ended) ==
    /\ mounted = "MobileControls"
    /\ ended # {}
    /\ \A id \in ended : fingers[id] = "left"
    /\ fingers' = [id \in TouchIds |-> IF id \in ended THEN "up" ELSE fingers[id]]
    /\ IF leftTouchId # NULL /\ leftTouchId[1] \in ended
       THEN /\ leftOrigin' = NULL
            /\ leftTouchId' = NULL
            /\ throttleRef' = 0
            /\ SendCombinedCommand(TRUE, 0, steerRef)
            /\ stickEvent' = StickEvent("leftEnd", TRUE, 0, Emits(TRUE, 0, steerRef))
       ELSE /\ stickEvent' = StickEvent("leftEnd", FALSE, 0, FALSE)
            /\ UNCHANGED <<leftOrigin, leftTouchId, throttleRef, stickCmd, sinceLastCmd>>
    /\ UNCHANGED <<mounted, reach, ctlVars, rightTouchId, rightOrigin, steerRef>>
    /\ ManualFrame

\* handleRightEnd
RightEnd(ended) ==
    /\ mounted = "MobileControls"
    /\ ended # {}
    /\ \A id \in ended : fingers[id] = "right"
    /\ fingers' = [id \in TouchIds |-> IF id \in ended THEN "up" ELSE fingers[id]]
    /\ IF rightTouchId # NULL /\ rightTouchId[1] \in ended
       THEN /\ rightOrigin' = NULL
            /\ rightTouchId' = NULL
            /\ steerRef' = 0
            /\ SendCombinedCommand(TRUE, throttleRef, 0)
            /\ stickEvent' = StickEvent("rightEnd", TRUE, 0, Emits(TRUE, throttleRef, 0))
       ELSE /\ stickEvent' = StickEvent("rightEnd", FALSE, 0, FALSE)
            /\ UNCHANGED <<rightOrigin, rightTouchId, steerRef, stickCmd, sinceLastCmd>>
    /\ UNCHANGED <<mounted, reach, ctlVars, leftTouchId, leftOrigin, throttleRef>>
    /\ ManualFrame

\* time passes: Date.now() grows by TickMs. Beyond the rate limit the
\* difference to lastCmdTime is not told apart
ClockTick ==
    /\ mounted = "MobileControls"
    /\ sinceLastCmd <= RateLimitMs
    /\ sinceLastCmd' = Min({sinceLastCmd + TickMs, RateLimitMs + 1})
    /\ UNCHANGED <<mounted, reach, ctlVars, fingers, leftTouchId, leftOrigin, rightTouchId,
                   rightOrigin, throttleRef, steerRef, stickCmd, stickEvent>>
    /\ ManualFrame

\* either component: Controls with every key, button and slider position,
\* or MobileControls with one finger that is dragged to any coordinate
InitManual ==
    /\ fcArgs = [direction |-> "stop", speed |-> ABSENT]
    /\ sinkCmd = NULL
    /\ CodecIdle /\ SceneIdle /\ TogglesInit /\ AppIdle /\ FeedIdle
    /\ \/ mounted = "Controls" /\ reach = 0
       \/ mounted = "MobileControls" /\ reach \in FullPositions
    /\ ControlsIdle /\ SticksIdle
    /\ ServiceConstructed

NextManual ==
    \/ \E key \in MoveKeys \cup {" "} : KeyDown(key)
    \/ \E key \in MoveKeys : KeyUp(key)
    \/ \E key \in ButtonKeys, pressed \in BOOLEAN : HandleBtn(key, pressed)
    \/ StopAll
    \/ \E v \in SpeedChoices : SetSpeed(v)
    \/ \E zone \in {"left", "right"} : TouchStart(zone, 0, 0)
    \/ LeftMove([id \in {0} |-> reach])
    \/ RightMove([id \in {0} |-> reach])
    \/ LeftEnd({0})
    \/ RightEnd({0})

SpecManual == InitManual /\ [][NextManual]_vars

\* MobileControls as App renders it (disabled={false}) with several fingers,
\* the sticks at a few stops, and the clock
InitSticks ==
    /\ fcArgs = [direction |-> "stop", speed |-> ABSENT]
    /\ sinkCmd = NULL
    /\ CodecIdle /\ SceneIdle /\ TogglesInit /\ AppIdle /\ FeedIdle
    /\ mounted = "MobileControls" /\ reach = 0
    /\ ControlsIdle /\ SticksIdle
    /\ ServiceConstructed

NextSticks ==
    \/ \E zone \in {"left", "right"}, id \in TouchIds : TouchStart(zone, id, 0)
    \/ \E ids \in SUBSET TouchIds : \E changed \in [ids -> StickStops] : LeftMove(changed)
    \/ \E ids \in SUBSET TouchIds : \E changed \in [ids -> StickStops] : RightMove(changed)
    \/ \E ended \in SUBSET TouchIds : LeftEnd(ended)
    \/ \E ended \in SUBSET TouchIds : RightEnd(ended)
    \/ ClockTick

SpecSticks == InitSticks /\ [][NextSticks]_vars

\* the sticks left to themselves: only the clock is sure to go on
SpecSticksFair == SpecSticks /\ WF_vars(ClockTick)

\* ------------------------------------------------------------------------
\* VideoFeed in image mode: load errors, the retry timer, the manual retry
\* and the reset on a change of the camera configuration
\* ------------------------------------------------------------------------
\* what an action of VideoFeed leaves alone
FeedFrame == UNCHANGED <<nonUiVars, appVars, manualVars>>

\* onError of the <img>: handleError sets hasError and, when
\* retryTimeoutRef.current is falsy, starts the 3 s timer and stores its
\* handle; the error view replaces the image
ImgError ==
    /\ img = "loading"
    /\ imgErrors < MaxErrors
    /\ imgErrors' = imgErrors + 1
    /\ hasError' = TRUE
    /\ img' = "none"
    /\ IF retryTimeoutRef = NULL
       THEN /\ timerSeq' = timerSeq + 1
            /\ timers' = timers \cup {timerSeq'}
            /\ retryTimeoutRef' = Some(timerSeq')
       ELSE UNCHANGED <<timerSeq, timers, retryTimeoutRef>>
    /\ UNCHANGED <<retryCount, configEdits>>
    /\ FeedFrame

\* onLoad of the <img>: setHasError(false)
ImgLoad ==
    /\ img = "loading"
    /\ img' = "loaded"
    /\ hasError' = FALSE
    /\ UNCHANGED <<retryCount, retryTimeoutRef, timers, timerSeq, imgErrors, configEdits>>
    /\ FeedFrame

\* the callback of the retry timer t: setRetryCount(c => c + 1),
\* setHasError(false), retryTimeoutRef.current = null; the image is mounted
\* again under its new key
TimerFire(t) ==
    /\ t \in timers
    /\ timers' = timers \ {t}
    /\ retryCount' = retryCount + 1
    /\ hasError' = FALSE
    /\ retryTimeoutRef' = NULL
    /\ img' = "loading"
    /\ UNCHANGED <<timerSeq, imgErrors, configEdits>>
    /\ FeedFrame

\* handleManualRetry, the RETRY button of the error view
HandleManualRetry ==
    /\ hasError
    /\ timers' = IF retryTimeoutRef # NULL THEN timers \ {retryTimeoutRef[1]} ELSE timers
    /\ retryTimeoutRef' = NULL
    /\ retryCount' = retryCount + 1
    /\ hasError' = FALSE
    /\ img' = "loading"
    /\ UNCHANGED <<timerSeq, imgErrors, configEdits>>
    /\ FeedFrame

\* the effect on [config.cameraUrl, cameraUser, cameraPwd]: setHasError(false),
\* setRetryCount(0) and clearTimeout of the stored handle, which stays in
\* retryTimeoutRef; the image loads the new url
ConfigChange ==
    /\ configEdits < MaxConfigEdits
    /\ configEdits' = configEdits + 1
    /\ hasError' = FALSE
    /\ retryCount' = 0
    /\ timers' = IF retryTimeoutRef # NULL THEN timers \ {retryTimeoutRef[1]} ELSE timers
    /\ img' = "loading"
    /\ UNCHANGED <<retryTimeoutRef, timerSeq, imgErrors>>
    /\ FeedFrame

InitFeed ==
    /\ fcArgs = [direction |-> "stop", speed |-> ABSENT]
    /\ sinkCmd = NULL
    /\ CodecIdle /\ SceneIdle /\ TogglesInit /\ UiIdle
    /\ ServiceConstructed

NextFeed ==
    \/ ImgError
    \/ ImgLoad
    \/ \E t \in 1..MaxErrors : TimerFire(t)
    \/ HandleManualRetry
    \/ ConfigChange

\* a timer that is pending fires; the user and the camera owe nothing
SpecFeed ==
    /\ InitFeed
    /\ [][NextFeed]_vars
    /\ \A t \in 1..MaxErrors : WF_vars(TimerFire(t))

\* the (throttle, steer) table of the direction mapping
DirectionTable(d, s) ==
    CASE d = "forward"  -> <<s, 0>>
      [] d = "backward" -> <<-s, 0>>
      [] d = "left"     -> <<0, -s>>
      [] d = "right"    -> <<0, s>>
      [] d = "stop"     -> <<0, 0>>

\* ------------------------------------------------------------------------
\* C1: for a declared direction and a speed in 1..255 the command handed to
\* the sink is forward -> (s, 0), backward -> (-s, 0), left -> (0, -s),
\* right -> (0, s), stop -> (0, 0), with cmd = 'move'.
\* ------------------------------------------------------------------------
C1_DirectionMapping ==
    (/\ sinkCmd # NULL
     /\ fcArgs.direction \in Directions
     /\ fcArgs.speed # ABSENT
     /\ fcArgs.speed[1] \in 1..PwmMax)
    => /\ sinkCmd[1].cmd = "move"
       /\ <<sinkCmd[1].throttle, sinkCmd[1].steer>>
            = DirectionTable(fcArgs.direction, fcArgs.speed[1])

C1_Witness ==
    /\ sinkCmd # NULL
    /\ fcArgs = [direction |-> "left", speed |-> Some(150)]
    /\ sinkCmd[1].steer = -150

\* ------------------------------------------------------------------------
\* C2: every command handed to the sink has throttle and steer within
\* [-255, 255], whatever speed the remote model supplies.
\* ------------------------------------------------------------------------
C2_CommandInPwmRange ==
    sinkCmd # NULL =>
        /\ sinkCmd[1].throttle \in -PwmMax..PwmMax
        /\ sinkCmd[1].steer \in -PwmMax..PwmMax

\* ------------------------------------------------------------------------
\* Derived views of the handler state
\* ------------------------------------------------------------------------
\* the function calls received so far, with the event each came in
ReceivedCalls ==
    UNION {{[msg |-> h, pos |-> j, fc |-> handlers[h].calls[j]] :
                j \in 1..Len(handlers[h].calls)} : h \in 1..Len(handlers)}
ToolTx == {i \in 1..Len(tx) : tx[i].kind = "tool"}
Dispatched(id) == \E i \in 1..Len(sinkLog) : sinkLog[i].id = id
Settled(id) == \E st \in settled : st.id = id
Answered(id) == \E i \in ToolTx : tx[i].id = id

\* ------------------------------------------------------------------------
\* C3: every tool response transmitted carries the id and the name of the
\* function call whose sink invocation produced its result; no response has
\* an id that was not received, and no call id is answered twice.
\* ------------------------------------------------------------------------
C3_ResponseCorrelation ==
    /\ \A i \in ToolTx :
          \E c \in ReceivedCalls :
              /\ c.fc.id = tx[i].id
              /\ c.fc.name = tx[i].name
              /\ [id |-> c.fc.id, outcome |-> "fulfilled", result |-> tx[i].result]
                     \in settled
    /\ \A i, j \in ToolTx : tx[i].id = tx[j].id => i = j

\* two calls of different events were in flight together and the later one
\* was answered first, each with its own result
C3_Witness ==
    /\ Len(tx) = 2
    /\ tx[1].kind = "tool" /\ tx[1].id = 2 /\ tx[1].result = "Sent"
    /\ tx[2].kind = "tool" /\ tx[2].id = 1 /\ tx[2].result = "OK"
    /\ Len(handlers) = 2

\* ------------------------------------------------------------------------
\* C4: when every sink invocation is eventually fulfilled, every moveRobot
\* call of every batch is eventually answered with a response of its id.
\* ------------------------------------------------------------------------
C4_BatchAnswered ==
    \A id \in 1..MaxCalls :
        [](((\E c \in ReceivedCalls : c.fc.id = id /\ c.fc.name = "moveRobot"))
              => <>Answered(id))

\* a batch of two moveRobot calls, both answered
C4_Witness ==
    /\ Len(handlers) >= 1
    /\ Len(handlers[1].calls) = 2
    /\ \A j \in 1..2 : handlers[1].calls[j].name = "moveRobot"
    /\ Answered(1) /\ Answered(2)

\* ------------------------------------------------------------------------
\* C5: a failing sink is turned into a result string: the call is still
\* answered, the failure does not escape the handler, and the rest of the
\* batch, the audio and the transcript of the event are still handled.
\* ------------------------------------------------------------------------
C5_SinkFailureContained ==
    /\ \A h \in 1..Len(handlers) : handlers[h].pc # "threw"
    /\ \A st \in settled : st.outcome = "rejected" => Answered(st.id)

\* ------------------------------------------------------------------------
\* C6: the calls of one batch are dispatched concurrently: no call waits,
\* undispatched, for an earlier call of its batch whose sink invocation is
\* still pending.
\* ------------------------------------------------------------------------
C6_BatchConcurrent ==
    \A c, d \in ReceivedCalls :
        (/\ c.msg = d.msg /\ c.pos < d.pos
         /\ c.fc.name = "moveRobot" /\ d.fc.name = "moveRobot"
         /\ Dispatched(c.fc.id) /\ ~Settled(c.fc.id))
        => Dispatched(d.fc.id)

\* ------------------------------------------------------------------------
\* C7: scheduled start times satisfy start[i+1] >= start[i] + duration[i]
\* for every consecutive pair in scheduling order.
\* ------------------------------------------------------------------------
C7_PlaybackMonotonic ==
    \A i \in 1..(Len(schedule) - 1) :
        schedule[i + 1].start >= schedule[i].start + schedule[i].dur

\* three chunks: the second arrives before the first ends (back to back),
\* the third after an underrun (a gap)
C7_Witness ==
    /\ Len(schedule) = 3
    /\ schedule[2].start = schedule[1].start + schedule[1].dur
    /\ schedule[3].start > schedule[2].start + schedule[2].dur
    /\ schedule[1].dur # schedule[2].dur

\* ------------------------------------------------------------------------
\* C8: audio chunks are scheduled in the arrival order of their events: the
\* chunk of an earlier event starts before the chunk of a later event.
\* ------------------------------------------------------------------------
C8_ArrivalOrder ==
    \A i, j \in 1..Len(schedule) :
        schedule[i].msg < schedule[j].msg => schedule[i].start < schedule[j].start

\* the realtime-input frames on the wire
FrameTx == {i \in 1..Len(tx) : tx[i].kind = "frame"}

\* ------------------------------------------------------------------------
\* C9: on every session the audio frames are transmitted in the order they
\* were captured, those captured before the session promise resolved
\* included, and no frame is transmitted twice.
\* ------------------------------------------------------------------------
C9_FramesFifo ==
    /\ \A i, j \in FrameTx :
          (i < j /\ tx[i].session = tx[j].session) => tx[i].id < tx[j].id
    /\ \A i, j \in FrameTx : tx[i].id = tx[j].id => i = j

\* two frames waited for the session promise and a third was captured after
\* it resolved: all three went out in capture order
C9_Witness ==
    /\ Len(tx) = 3
    /\ \A i \in 1..3 : tx[i].kind = "frame" /\ tx[i].id = i /\ tx[i].session = 1
    /\ tx[1].waited /\ tx[2].waited /\ ~tx[3].waited

\* the sessions, microphone streams, input contexts and capture nodes that
\* are live; the code never stops a stream's tracks, so a granted stream
\* stays live
LiveSessions == {k \in Connects : conn[k].transport \in {"connecting", "open"}}
LiveStreams == {k \in Connects : conn[k].mic = "granted"}
LiveContexts == {k \in Connects : ctxState[k] = "running"}
LiveCapture == {p \in 1..Len(procs) : Capturing(p)}

\* ------------------------------------------------------------------------
\* C10: at most one session and one set of capture resources (input audio
\* context, microphone stream, capture nodes) is live per service instance.
\* ------------------------------------------------------------------------
C10_SingleSession ==
    /\ Cardinality(LiveSessions) <= 1
    /\ Cardinality(LiveStreams) <= 1
    /\ Cardinality(LiveContexts) <= 1
    /\ Cardinality(LiveCapture) <= 1

\* ------------------------------------------------------------------------
\* C11: disconnect() called twice on a connected service completes both
\* times without rejecting, and while the transport has not closed by
\* itself onClose is invoked at most once.
\* ------------------------------------------------------------------------
C11_DisconnectTwice ==
    /\ disc.rejected = 0
    /\ (\A k \in Connects : conn[k].transport \notin {"closed", "error"})
          => callbacks.onClose <= 1

\* ------------------------------------------------------------------------
\* C12: after a completed disconnect() on a connected service no capture
\* nodes deliver audio, no microphone stream is live and the output context
\* has been closed.
\* ------------------------------------------------------------------------
C12_DisconnectReleases ==
    Disconnected =>
        /\ LiveCapture = {}
        /\ LiveStreams = {}
        /\ released.mic >= 1
        /\ released.output >= 1

\* a teardown trigger has occurred: a completed disconnect(), a remote close
\* or a transport error
TeardownTriggered ==
    \/ Disconnected
    \/ \E k \in Connects : conn[k].transport \in {"closed", "error"}

\* ------------------------------------------------------------------------
\* C13: across disconnect() calls, remote closes and transport errors of one
\* connected session the microphone and the output device are each released
\* exactly once: never twice, and once as soon as a trigger has occurred.
\* ------------------------------------------------------------------------
C13_ReleasedExactlyOnce ==
    /\ released.mic <= 1
    /\ released.output <= 1
    /\ TeardownTriggered => (released.mic = 1 /\ released.output = 1)

\* ------------------------------------------------------------------------
\* C14: for one connected session onClose is invoked exactly once when the
\* connection is closed and onError exactly once when it fails, whatever
\* invokes them: a remote close followed by disconnect() gives one onClose.
\* ------------------------------------------------------------------------
C14_CallbacksOnce ==
    /\ callbacks.onClose <= 1
    /\ callbacks.onError <= 1
    /\ (\E k \in Connects : conn[k].transport = "closed") => callbacks.onClose = 1
    /\ (\E k \in Connects : conn[k].transport = "error") => callbacks.onError = 1

\* ------------------------------------------------------------------------
\* C15: an event that arrives after the session has left the open state is
\* not processed: none of its calls reaches the sink, its audio is not
\* scheduled and its text is not forwarded.
\* ------------------------------------------------------------------------
C15_NoInboundAfterTeardown ==
    \A h \in 1..Len(handlers) :
        handlers[h].torn =>
            /\ \A j \in 1..Len(handlers[h].calls) : ~Dispatched(handlers[h].calls[j].id)
            /\ \A i \in 1..Len(schedule) : schedule[i].msg # h
            /\ \A i \in 1..Len(transcripts) : transcripts[i] # h

\* ------------------------------------------------------------------------
\* C16: after the transport's close or error event the capture nodes fed by
\* that session's stream deliver no audio any more, and no connect() is made
\* by the service itself.
\* ------------------------------------------------------------------------
C16_TransportFailureTearsDown ==
    /\ \A k \in Connects :
          conn[k].transport \in {"closed", "error"}
              => \A p \in 1..Len(procs) : procs[p].stream = k => ~Capturing(p)
    /\ nconn = 1

\* ------------------------------------------------------------------------
\* C17: when the microphone request of a connect() is rejected, onError is
\* invoked, no session is requested for that connect(), and the input
\* context it created is not left running.
\* ------------------------------------------------------------------------
C17_MicFailureSurfaced ==
    \A k \in Connects :
        conn[k].mic = "denied" =>
            /\ callbacks.onError >= 1
            /\ conn[k].transport = "none"
            /\ ctxState[k] # "running"

\* ------------------------------------------------------------------------
\* C18: a disconnect() called before any connect() or while a connect() is
\* in progress does not reject, and the open event of a connect() that was
\* in progress then starts no capture: its capture nodes never deliver audio.
\* ------------------------------------------------------------------------
C18_DisconnectMidConnect ==
    /\ disc.calls = 1 => disc.rejected = 0
    /\ \A p \in 1..Len(procs) :
          procs[p].stream \in disc.midConnect => ~Capturing(p)

\* ------------------------------------------------------------------------
\* C19: the result of a sink invocation that was in flight when disconnect()
\* ran is discarded: no tool response for a call received before the
\* teardown is transmitted after it.
\* ------------------------------------------------------------------------
C19_LateResultDiscarded ==
    \A i \in ToolTx :
        \A c \in ReceivedCalls :
            (c.fc.id = tx[i].id /\ ~handlers[c.msg].torn) => ~tx[i].torn

\* the frames waiting for session promise k
PendingFrames(k) == {i \in 1..Len(thenQ[k]) : thenQ[k][i].kind = "frame"}

\* ------------------------------------------------------------------------
\* C20: at most one captured frame is pending transmission at any moment:
\* frames captured before the session promise resolves replace one another.
\* ------------------------------------------------------------------------
C20_OnePendingFrame ==
    \A k \in Connects : Cardinality(PendingFrames(k)) <= 1

\* ------------------------------------------------------------------------
\* C21: for every sample x in [-1, 1] the value decoded from the encoder's
\* 16-bit output is within 1/32768 of x:
\* |sample / GridDen - decoded / 32768| <= 1 / 32768.
\* ------------------------------------------------------------------------
C21_CodecRoundTrip ==
    (decoded # NULL /\ sample \in -GridDen..GridDen)
        => Abs(sample * DecodeScale - decoded[1] * GridDen) <= GridDen

\* C21, amended: the decoded value is never above x, less than 2/32768
\* below it, and within 1/32768 of it for x <= 0.
C21_CodecRoundTripTwoSteps ==
    (decoded # NULL /\ sample \in -GridDen..GridDen)
        => LET err == sample * DecodeScale - decoded[1] * GridDen
           IN  /\ Abs(err) < 2 * GridDen
               /\ sample >= 0 => err >= 0
               /\ sample <= 0 => Abs(err) <= GridDen

\* a positive sample decoded more than 1/32768 below its value
C21_Witness ==
    /\ decoded # NULL
    /\ sample = GridDen - 1
    /\ sample * DecodeScale - decoded[1] * GridDen > GridDen

\* ------------------------------------------------------------------------
\* C22: analyzeScene never rejects: whatever the image and however the
\* model call fails, it resolves to a string, the model's text on success
\* and a failure description otherwise.
\* ------------------------------------------------------------------------
C22_SceneNeverRejects ==
    (sceneResult # NULL /\ sceneResult[1].settled # "awaiting") =>
        /\ sceneResult[1].settled = "resolved"
        /\ (sceneCall.image # "notString" /\ sceneCall.outcome = "text")
              => sceneResult[1].value = "model text"

C24_SpeedZeroStops ==
    (sinkCmd # NULL /\ fcArgs.speed # ABSENT /\ fcArgs.speed[1] = 0)
        => (sinkCmd[1].throttle = 0 /\ sinkCmd[1].steer = 0)

\* ------------------------------------------------------------------------
\* C25: every command built from a moveRobot call has at most one of
\* throttle and steer non-zero; a direction outside the declared set gives
\* (0, 0), and that command is still handed to the sink and its call
\* answered with a tool response.
\* ------------------------------------------------------------------------
C25_OneAxisNoOp ==
    /\ \A i \in 1..Len(sinkLog) :
          /\ sinkLog[i].cmd.throttle = 0 \/ sinkLog[i].cmd.steer = 0
          /\ fcArgs.direction \notin Directions
                => (sinkLog[i].cmd.throttle = 0 /\ sinkLog[i].cmd.steer = 0)
    /\ \A c \in ReceivedCalls :
          /\ Dispatched(c.fc.id)
          /\ handlers[c.msg].pc = "done" => Answered(c.fc.id)

\* a call with an undeclared direction and a speed went to the sink as the
\* no-op command and was answered
C25_Witness ==
    /\ fcArgs = [direction |-> UnknownDirection, speed |-> Some(150)]
    /\ Len(sinkLog) = 1
    /\ sinkLog[1].cmd = [cmd |-> "move", throttle |-> 0, steer |-> 0]
    /\ Answered(1)

\* the end of chunk i of the schedule, 0 before the first chunk
EndOfChunk(i) == IF i = 0 THEN 0 ELSE schedule[i].start + schedule[i].dur

\* ------------------------------------------------------------------------
\* C26: each chunk is scheduled at max(now, nextStartTime) and the cursor
\* becomes its end: a chunk that arrives before its predecessor ends starts
\* exactly at the predecessor's end, one that arrives after an underrun
\* starts exactly at the device time read.
\* ------------------------------------------------------------------------
C26_ScheduleExact ==
    /\ \A i \in 1..Len(schedule) :
          /\ schedule[i].at <= EndOfChunk(i - 1)
                => schedule[i].start = EndOfChunk(i - 1)
          /\ schedule[i].at >= EndOfChunk(i - 1)
                => schedule[i].start = schedule[i].at
    /\ nextStartTime = EndOfChunk(Len(schedule))

\* the second chunk arrived while the first was playing and starts at its
\* end; the third arrived after the second had ended and starts on arrival
C26_Witness ==
    /\ Len(schedule) = 3
    /\ schedule[2].at < EndOfChunk(1)
    /\ schedule[2].start = EndOfChunk(1)
    /\ schedule[3].at > EndOfChunk(2)
    /\ schedule[3].start = schedule[3].at

\* the steps of the session state machine idle -> connecting -> open ->
\* (closed | error); a session that was never requested is idle ("none")
SessionSteps ==
    {<<"none", "connecting">>, <<"connecting", "open">>,
     <<"open", "closed">>, <<"open", "error">>}

\* session k is open and its promise has resolved
OpenResolved(k) == conn[k].transport = "open" /\ conn[k].resolved

C28_OnlyMoveRobot ==
    \A c \in ReceivedCalls :
        /\ c.fc.name # "moveRobot"
              => (~Dispatched(c.fc.id) /\ ~Answered(c.fc.id))
        /\ (c.fc.name = "moveRobot" /\ handlers[c.msg].pc = "done")
              => (Dispatched(c.fc.id) /\ Answered(c.fc.id))

\* a batch of an unknown call between two moveRobot calls: the handler has
\* ended, both moveRobot calls were answered and the unknown one was skipped
C28_Witness ==
    /\ Len(handlers) = 1
    /\ handlers[1].pc = "done"
    /\ Len(handlers[1].calls) = 3
    /\ handlers[1].calls[2].name = "getStatus"
    /\ Answered(1) /\ Answered(3)
    /\ ~Dispatched(2) /\ ~Answered(2)
    /\ Len(sinkLog) = 2

\* ------------------------------------------------------------------------
\* C29: in every state of the toggles head open implies top open: head is
\* never opened while top is closed, top never closed while head is open.
\* ------------------------------------------------------------------------
C29_HeadImpliesTop == toggles.head => toggles.top

\* head and top are open and a click to close top has just been refused
C29_Witness ==
    /\ toggles.head /\ toggles.top
    /\ toggleReq = Some([target |-> "top", outcome |-> "blocked"])

\* the toggles a receiver of the servo commands ends up with
RECURSIVE ReplayServo(_, _)
ReplayServo(log, t) ==
    IF log = <<>> THEN t
    ELSE ReplayServo(Tail(log), [t EXCEPT ![Head(log).target] = (Head(log).state = "open")])

\* ------------------------------------------------------------------------
\* C30: handleToggle emits a servo command exactly when it changes a
\* toggle, with the toggle's new value; a request refused by a constraint
\* or by disabled emits nothing and changes no toggle; replaying the
\* emitted commands gives the toggles state.
\* ------------------------------------------------------------------------
C30_ServoMirrorsToggles ==
    /\ [](ReplayServo(servoLog, TogglesClosed) = toggles)
    /\ [][/\ (servoLog' # servoLog) <=> (toggles' # toggles)
          /\ servoLog' # servoLog =>
                \E target \in ToggleTargets :
                    /\ toggles' = [toggles EXCEPT ![target] = ~toggles[target]]
                    /\ servoLog' = Append(servoLog,
                           [cmd |-> "servo", target |-> target,
                            state |-> IF toggles'[target] THEN "open" ELSE "close"])
          /\ (toggleReq' # NULL /\ toggleReq'[1].outcome # "applied")
                => (toggles' = toggles /\ servoLog' = servoLog)]_vars

\* top was opened, head was opened, and a click on head while disabled
\* left both as they were
C30_Witness ==
    /\ Len(servoLog) = 2
    /\ servoLog[1] = [cmd |-> "servo", target |-> "top", state |-> "open"]
    /\ servoLog[2] = [cmd |-> "servo", target |-> "head", state |-> "open"]
    /\ toggleReq = Some([target |-> "head", outcome |-> "disabled"])
    /\ toggles = [head |-> TRUE, top |-> TRUE, skirt |-> FALSE]

\* ------------------------------------------------------------------------
\* Properties of App: sendCommand and the robot WebSocket
\* ------------------------------------------------------------------------
\* the text of the last command other than an emote among the first n
\* commands passed to sendCommand ('' when there is none)
RECURSIVE LastNonEmote(_, _)
LastNonEmote(log, n) ==
    IF n = 0 THEN <<>>
    ELSE IF log[n].cmd.cmd # "emote" THEN JsonOf(log[n].cmd)
    ELSE LastNonEmote(log, n - 1)

\* call i of sendCommand led to a ws.send
Sent(i) == \E w \in 1..Len(wire) : wire[w].call = i

\* C31: sendCommand never transmits a command other than an emote whose JSON
\* text equals that of the preceding non-emote command passed to it; every
\* emote passed while the socket is open is transmitted, a repeated one too;
\* and the remembered text is always that of the last non-emote command
C31_DedupExceptEmotes ==
    /\ \A i \in 1..Len(cmdLog) :
          LET c == cmdLog[i]
          IN  /\ (c.cmd.cmd # "emote" /\ JsonOf(c.cmd) = LastNonEmote(cmdLog, i - 1))
                    => ~Sent(i)
              /\ (c.cmd.cmd = "emote" /\ c.ws # 0) => Sent(i)
    /\ lastCmdRef = LastNonEmote(cmdLog, Len(cmdLog))

\* on an open socket: a stop is sent, an emote and its repetition are sent,
\* and the stop that follows them is dropped
C31_Witness ==
    /\ Len(cmdLog) = 4
    /\ \A i \in 1..4 : cmdLog[i].ws # 0
    /\ cmdLog[1].cmd = StopCommand /\ cmdLog[4].cmd = StopCommand
    /\ cmdLog[2].cmd.cmd = "emote" /\ cmdLog[3].cmd.cmd = "emote"
    /\ Sent(1) /\ Sent(2) /\ Sent(3) /\ ~Sent(4)

\* the text of the last non-emote command sent on socket s before call i
RECURSIVE LastSentOn(_, _, _)
LastSentOn(s, i, w) ==
    IF w = 0 THEN <<>>
    ELSE IF wire[w].ws = s /\ wire[w].call < i /\ wire[w].data[2] # "emote"
         THEN wire[w].data
    ELSE LastSentOn(s, i, w - 1)

\* C32: a command other than an emote passed to sendCommand while the socket
\* is open is transmitted unless it equals the command most recently
\* transmitted on that connection
C32_SentUnlessRepeatedOnConnection ==
    \A i \in 1..Len(cmdLog) :
        LET c == cmdLog[i]
        IN  (c.cmd.cmd # "emote" /\ c.ws # 0)
                => (Sent(i) \/ LastSentOn(c.ws, i, Len(wire)) = JsonOf(c.cmd))

\* C33: connectionState is CONNECTED exactly when the socket held in wsRef
\* is open
C33_ConnectedIffCurrentOpen == (connectionState = "CONNECTED") <=> CurrentOpen

\* C34: at most one socket is connecting or open, and an open socket is the
\* one wsRef refers to
C34_OneLiveSocket ==
    /\ Cardinality({i \in 1..Len(sockets) : sockets[i] \in {"CONNECTING", "OPEN"}}) <= 1
    /\ \A i \in 1..Len(sockets) : sockets[i] = "OPEN" => wsRef = i

\* ------------------------------------------------------------------------
\* Properties of the manual controls
\* ------------------------------------------------------------------------
\* both axes of an emitted command lie in the PWM range
InPwmRange(c) ==
    c = NULL \/ (c[1].throttle \in (-PwmMax)..PwmMax /\ c[1].steer \in (-PwmMax)..PwmMax)

\* +spd or -spd by the key held, 0 when none or both are held
KeyAxis(keys, plus, minus, spd) ==
    LET p == keys \cap plus # {}
        m == keys \cap minus # {}
    IN  IF p /\ ~m THEN spd ELSE IF m /\ ~p THEN -spd ELSE 0

\* v is the deflection delta, clamped to the pixel range and scaled to the
\* PWM range, rounded to a nearest integer, and 0 if that is below the deadzone
IsScaledAxis(v, delta, maxDist) ==
    LET dc == IF delta < -maxDist THEN -maxDist ELSE IF delta > maxDist THEN maxDist ELSE delta
    IN  IF v = 0
        THEN 2 * PwmMax * Abs(dc) <= (2 * Deadzone - 1) * maxDist
        ELSE /\ Abs(v) >= Deadzone
             /\ 2 * Abs(v * maxDist - PwmMax * dc) <= maxDist

\* C35: every move command of the manual controls has both axes within
\* [-255, 255]; in Controls an axis is +speed, -speed or 0 by the held keys,
\* opposite keys cancelling; in MobileControls an axis is the clamped
\* deflection scaled to the PWM range, forced to 0 below the deadzone
C35_ManualCommandsInRange ==
    /\ [](/\ InPwmRange(ctlCmd) /\ InPwmRange(stickCmd)
          /\ throttleRef \in (-PwmMax)..PwmMax /\ steerRef \in (-PwmMax)..PwmMax
          /\ (throttleRef = 0 \/ Abs(throttleRef) >= Deadzone)
          /\ (steerRef = 0 \/ Abs(steerRef) >= Deadzone))
    /\ [][/\ (activeKeys' # activeKeys \/ ctlCmd' # ctlCmd)
               => ctlCmd' = Some([cmd |-> "move",
                                  throttle |-> KeyAxis(activeKeys', {"w", "arrowup"},
                                                       {"s", "arrowdown"}, speed'),
                                  steer |-> KeyAxis(activeKeys', {"d", "arrowright"},
                                                    {"a", "arrowleft"}, speed')])
          /\ (stickEvent'.handler = "leftMove" /\ stickEvent'.tracked)
               => IsScaledAxis(throttleRef', stickEvent'.delta, LeftRange)
          /\ (stickEvent'.handler = "rightMove" /\ stickEvent'.tracked)
               => IsScaledAxis(steerRef', stickEvent'.delta, RightRange)
          /\ stickCmd' # stickCmd
               => stickCmd' = Some([cmd |-> "move", throttle |-> throttleRef',
                                    steer |-> steerRef'])]_vars

\* the left stick pushed beyond its pixel range emits full throttle
C35_Witness ==
    /\ stickEvent.handler = "leftMove" /\ stickEvent.emitted
    /\ stickEvent.delta > LeftRange
    /\ stickCmd = Some([cmd |-> "move", throttle |-> PwmMax, steer |-> 0])

\* C36: when the finger a stick tracks is lifted or cancelled while the
\* controls are not disabled, a move command with that stick's axis at 0 is
\* passed to onCommand in the same handler whatever the rate limit says and
\* the tracked identifier is cleared; an event without the tracked touch
\* leaves the stick as it is
C36_ReleaseStopsAxis ==
    [][/\ (leftTouchId # NULL /\ ~disabled
              /\ fingers[leftTouchId[1]] = "left" /\ fingers'[leftTouchId[1]] = "up")
            => /\ leftTouchId' = NULL
               /\ stickEvent'.emitted
               /\ stickCmd' = Some([cmd |-> "move", throttle |-> 0, steer |-> steerRef])
               /\ sinceLastCmd' = 0
       /\ (rightTouchId # NULL /\ ~disabled
              /\ fingers[rightTouchId[1]] = "right" /\ fingers'[rightTouchId[1]] = "up")
            => /\ rightTouchId' = NULL
               /\ stickEvent'.emitted
               /\ stickCmd' = Some([cmd |-> "move", throttle |-> throttleRef, steer |-> 0])
               /\ sinceLastCmd' = 0
       /\ (stickEvent'.handler \in {"leftStart", "leftMove", "leftEnd"}
              /\ ~stickEvent'.tracked)
            => UNCHANGED <<leftTouchId, leftOrigin, throttleRef, stickCmd>>
       /\ (stickEvent'.handler \in {"rightStart", "rightMove", "rightEnd"}
              /\ ~stickEvent'.tracked)
            => UNCHANGED <<rightTouchId, rightOrigin, steerRef, stickCmd>>]_vars

\* the left finger is lifted within the rate limit while the right stick is
\* deflected: the stop of the throttle is emitted and the stick is free
C36_Witness ==
    /\ stickEvent.handler = "leftEnd" /\ stickEvent.tracked /\ stickEvent.emitted
    /\ stickEvent.elapsed <= RateLimitMs
    /\ leftTouchId = NULL
    /\ steerRef # 0
    /\ stickCmd = Some([cmd |-> "move", throttle |-> 0, steer |-> steerRef])

\* the last command passed to onCommand differs from the refs of the sticks
Stale ==
    IF stickCmd = NULL
    THEN throttleRef # 0 \/ steerRef # 0
    ELSE stickCmd[1].throttle # throttleRef \/ stickCmd[1].steer # steerRef

\* the last touch event moved a stick and the rate limit kept its command
\* back; no touch event has followed
Suppressed ==
    /\ stickEvent.handler \in {"leftMove", "rightMove"}
    /\ stickEvent.tracked /\ ~stickEvent.emitted
    /\ ~disabled
    /\ Stale

\* C37: after a stick update the rate limit suppressed, with the sticks held
\* still, a command with the current throttle and steer is eventually emitted
C37_StaleCaughtUp == Suppressed ~> (~Stale \/ disabled)

\* ------------------------------------------------------------------------
\* Properties of VideoFeed
\* ------------------------------------------------------------------------
\* C38: in image mode at most one retry timer is pending at a time, and
\* every load error is eventually followed by a retry that clears the error
\* state without the user doing anything (stated here in its weakest form:
\* the error state does not last for ever)
C38_ErrorRetried ==
    /\ [](Cardinality(timers) <= 1)
    /\ hasError ~> ~hasError

====
